---- MODULE Spec2Model ----
(***************************************************************************)
(* docker_log_redirect: a scheduler loop that, once per cycle, reloads its *)
(* configuration, runs one supervision pass (create_docker_log_threads)    *)
(* over the configured containers, forwards the pass results as e-mail     *)
(* alerts and sleeps; each spawned watcher thread runs get_docker_log.     *)
(*                                                                         *)
(* Strings that the program takes apart (container names, thread names,    *)
(* the text of str(threading.enumerate())) are sequences of one-character  *)
(* strings; raw log lines are sequences of byte values.                    *)
(***************************************************************************)
EXTENDS Integers, Sequences, FiniteSets, TLC

\* ------------------------------------------------------------------ bounds
MaxContainers == 2   \* longest docker_container section of a configuration
MaxThreads == 4      \* thread slots (identities) of the runtime
MaxBuf == 2          \* lines a log source may have pending in its pipe
MaxLines == 2        \* lines a log source emits before it falls silent

\* ------------------------------------------------------- model input sets
\* container_name values a configuration may hold: "a", "b a", "b_a"
ContainerNames == { <<"a">>, <<"b", " ", "a">>, <<"b", "_", "a">> }

\* raw lines a log source may emit: "a \n", "b\n" and the invalid byte
\* 0xFF + "\n"
Lines == { <<97, 32, 10>>, <<98, 10>>, <<255, 10>> }

NoThread == [pc |-> "none"]

RECURSIVE SeqsUpTo(_, _)
SeqsUpTo(S, n) ==
    IF n = 0 THEN { <<>> }
    ELSE LET shorter == SeqsUpTo(S, n - 1)
         IN  shorter \cup { Append(s, x) : s \in { q \in shorter : Len(q) = n - 1 }, x \in S }

\* what populate_startup_variables can return: the container list and the
\* two alert switches of the 'general' section
Configs ==
    [ containers : SeqsUpTo(ContainerNames, MaxContainers),
      email_alerts : BOOLEAN,
      alert_program_errors : BOOLEAN ]

NoConfig == [ containers |-> <<>>, email_alerts |-> FALSE, alert_program_errors |-> FALSE ]

\* the top-level sections populate_startup_variables asks for (lines 244-251)
RequiredKeys == { "general", "docker_container", "email", "logging" }

\* the top-level sections a configuration file may hold: all of them, or all
\* but one
YamlFiles == { RequiredKeys } \cup { RequiredKeys \ { k } : k \in RequiredKeys }

\* no configuration file has been read yet
NoYaml == <<>>

\* ------------------------------------------------------------------- state
VARIABLES
    pc,                    \* position of the main thread
    yaml,                  \* top-level sections of the configuration last read
    cfg,                   \* startup_variables of the current cycle
    i,                     \* index of the for loop of create_docker_log_threads
    thread_start_tracker,  \* result list of the pass
    spawned,               \* identities of the threads started by this pass
    died_in_pass,          \* a watcher thread ended while this pass was running
    ended,                 \* names of the ended threads not started again since
    j,                     \* index of the alert loop of main
    emails,                \* send_email calls attempted in this cycle
    threads                \* thread slots: the live watcher threads

vars == << pc, yaml, cfg, i, thread_start_tracker, spawned, died_in_pass, ended, j,
           emails, threads >>

passVars == << i, thread_start_tracker, spawned >>

Slots == 1 .. MaxThreads

\* ------------------------------------------------------- string functions
\* str.replace(" ", "_") of line 97
ReplaceSpaces(s) == [ k \in 1 .. Len(s) |-> IF s[k] = " " THEN "_" ELSE s[k] ]

\* f'{container_name}_thread' of line 100
ThreadName(container_name) ==
    ReplaceSpaces(container_name) \o << "_", "t", "h", "r", "e", "a", "d" >>

\* x in s, for Python strings
IsSubstring(x, s) ==
    \E k \in 0 .. (Len(s) - Len(x)) : SubSeq(s, k + 1, k + Len(x)) = x

\* repr of one thread object; the fixed pieces of the repr are single
\* symbols, no container name contains them
ThreadRepr(t) == << "<Thread(" >> \o t.name \o << ", started daemon N)>" >>

RECURSIVE JoinReprs(_)
JoinReprs(ts) ==
    IF ts = <<>> THEN <<>>
    ELSE << ", " >> \o ThreadRepr(Head(ts)) \o JoinReprs(Tail(ts))

\* str(threading.enumerate()): the main thread comes first
StrOfThreads(ts) ==
    << "[", "<_MainThread(MainThread, started N)>" >> \o JoinReprs(ts) \o << "]" >>

\* ---------------------------------------------------------------- threads
IsAlive(t) == t.pc \in { "popen", "poll", "readline" }

LiveSlots == { s \in Slots : IsAlive(threads[s]) }

RECURSIVE SlotsToSeq(_)
SlotsToSeq(S) ==
    IF S = {} THEN <<>>
    ELSE LET m == CHOOSE x \in S : \A y \in S : x <= y
         IN  << threads[m] >> \o SlotsToSeq(S \ { m })

\* threading.enumerate(): the live threads, in slot order
Enumerate == SlotsToSeq(LiveSlots)

\* the lookup written with == for in: never true, the text starts with "["
NameEqualsEnumerate(thread_name, ts) == thread_name = StrOfThreads(ts)

\* thread_name in str(threading.enumerate()) (lines 105 and 124)
ThreadNameInEnumerate(thread_name, ts) == IsSubstring(thread_name, StrOfThreads(ts))

\* --------------------------------------------------------- line decoding
\* continuation bytes that follow a UTF-8 lead byte; -1 for a byte that
\* cannot start a character
Utf8Follow(b) ==
    IF b < 128 THEN 0
    ELSE IF b \in 194 .. 223 THEN 1
    ELSE IF b \in 224 .. 239 THEN 2
    ELSE IF b \in 240 .. 244 THEN 3
    ELSE -1

Utf8Lead(b) ==
    IF b < 128 THEN b
    ELSE IF b \in 194 .. 223 THEN b - 192
    ELSE IF b \in 224 .. 239 THEN b - 224
    ELSE b - 240

RECURSIVE Utf8CodePoint(_, _)
Utf8CodePoint(acc, rest) ==
    IF rest = <<>> THEN acc
    ELSE Utf8CodePoint(acc * 64 + (Head(rest) - 128), Tail(rest))

\* bytes.decode('utf-8') of line 61: strict, an invalid sequence raises
\* UnicodeDecodeError (ok = FALSE)
RECURSIVE Utf8Decode(_)
Utf8Decode(bytes) ==
    IF bytes = <<>> THEN [ ok |-> TRUE, text |-> <<>> ]
    ELSE LET n == Utf8Follow(Head(bytes))
         IN  IF n = -1 \/ Len(bytes) < n + 1
                \/ \E k \in 2 .. (n + 1) : bytes[k] \notin 128 .. 191
             THEN [ ok |-> FALSE, text |-> <<>> ]
             ELSE LET cp == Utf8CodePoint(Utf8Lead(Head(bytes)), SubSeq(bytes, 2, n + 1))
                      r == Utf8Decode(SubSeq(bytes, n + 2, Len(bytes)))
                  IN  [ ok |-> r.ok, text |-> IF r.ok THEN << cp >> \o r.text ELSE <<>> ]

Whitespace == { 9, 10, 11, 12, 13, 28, 29, 30, 31, 32, 133, 160 }

RECURSIVE LStrip(_)
LStrip(text) ==
    IF text # <<>> /\ Head(text) \in Whitespace THEN LStrip(Tail(text)) ELSE text

RECURSIVE RStrip(_)
RStrip(text) ==
    IF text # <<>> /\ text[Len(text)] \in Whitespace
    THEN RStrip(SubSeq(text, 1, Len(text) - 1))
    ELSE text

\* str.strip() of line 61
Strip(text) == RStrip(LStrip(text))

\* ------------------------------------------------ watcher: get_docker_log
InPass == pc \in { "check", "spawn", "validate" }

\* the thread leaves threading.enumerate(): by returning from get_docker_log
\* after line 63 or by the ValueError of line 66
ThreadEnds(s) ==
    /\ threads' = [ threads EXCEPT ![s] = NoThread ]
    /\ died_in_pass' = (died_in_pass \/ InPass)
    /\ ended' = ended \cup { threads[s].name }

\* line 55: subprocess.Popen starts 'docker logs -f'; a failure to start the
\* sub-process leaves through the except of line 65
Popen(s) ==
    /\ pc \notin { "exited", "crashed" }
    /\ threads[s].pc = "popen"
    /\ \/ /\ threads' = [ threads EXCEPT ![s].pc = "poll", ![s].proc = "running" ]
          /\ UNCHANGED << died_in_pass, ended >>
       \/ ThreadEnds(s)
    /\ UNCHANGED << pc, yaml, cfg, passVars, j, emails >>

\* line 58: while output.poll() is None; line 63 when the process has ended
Poll(s) ==
    /\ pc \notin { "exited", "crashed" }
    /\ threads[s].pc = "poll"
    /\ IF threads[s].proc = "running"
       THEN /\ threads' = [ threads EXCEPT ![s].pc = "readline" ]
            /\ UNCHANGED << died_in_pass, ended >>
       ELSE ThreadEnds(s)
    /\ UNCHANGED << pc, yaml, cfg, passVars, j, emails >>

\* a reader that holds a lock of the interpreter while it waits: no line is
\* read while another watcher is waiting in readline
ReadLineUnderLock(s) ==
    /\ pc \notin { "exited", "crashed" }
    /\ threads[s].pc = "readline"
    /\ threads[s].buf # <<>> \/ threads[s].proc = "exited"
    /\ \A t \in Slots \ { s } :
         ~ (threads[t].pc = "readline" /\ threads[t].buf = <<>>
            /\ threads[t].proc = "running")
    /\ LET raw == IF threads[s].buf # <<>> THEN Head(threads[s].buf) ELSE <<>>
           rest == IF threads[s].buf # <<>> THEN Tail(threads[s].buf) ELSE <<>>
           d == Utf8Decode(raw)
       IN  IF ~ d.ok
           THEN ThreadEnds(s)
           ELSE \/ /\ threads' = [ threads EXCEPT ![s].pc = "poll", ![s].buf = rest,
                                                  ![s].written = Append(@, Strip(d.text)) ]
                   /\ UNCHANGED << died_in_pass, ended >>
                \/ ThreadEnds(s)
    /\ UNCHANGED << pc, yaml, cfg, passVars, j, emails >>

\* a reader that takes the line written last instead of the oldest one
ReadLineNewestFirst(s) ==
    /\ pc \notin { "exited", "crashed" }
    /\ threads[s].pc = "readline"
    /\ threads[s].buf # <<>> \/ threads[s].proc = "exited"
    /\ LET n == Len(threads[s].buf)
           raw == IF n > 0 THEN threads[s].buf[n] ELSE <<>>
           rest == IF n > 0 THEN SubSeq(threads[s].buf, 1, n - 1) ELSE <<>>
           d == Utf8Decode(raw)
       IN  IF ~ d.ok
           THEN ThreadEnds(s)
           ELSE \/ /\ threads' = [ threads EXCEPT ![s].pc = "poll", ![s].buf = rest,
                                                  ![s].written = Append(@, Strip(d.text)) ]
                   /\ UNCHANGED << died_in_pass, ended >>
                \/ ThreadEnds(s)
    /\ UNCHANGED << pc, yaml, cfg, passVars, j, emails >>

\* line 61: readline blocks until a line is pending or the pipe is at its
\* end, where it returns b''; the line is decoded (an error leaves through
\* line 65), stripped and handed to the container logger, and an error
\* raised by the logger leaves through line 65 as well
ReadLine(s) ==
    /\ pc \notin { "exited", "crashed" }
    /\ threads[s].pc = "readline"
    /\ threads[s].buf # <<>> \/ threads[s].proc = "exited"
    /\ LET raw == IF threads[s].buf # <<>> THEN Head(threads[s].buf) ELSE <<>>
           rest == IF threads[s].buf # <<>> THEN Tail(threads[s].buf) ELSE <<>>
           d == Utf8Decode(raw)
       IN  IF ~ d.ok
           THEN ThreadEnds(s)
           ELSE \/ /\ threads' = [ threads EXCEPT ![s].pc = "poll", ![s].buf = rest,
                                                  ![s].written = Append(@, Strip(d.text)) ]
                   /\ UNCHANGED << died_in_pass, ended >>
                \/ ThreadEnds(s)
    /\ UNCHANGED << pc, yaml, cfg, passVars, j, emails >>

\* the log source of a watcher writes one more line to its pipe
SourceEmit(s, line) ==
    /\ pc \notin { "exited", "crashed" }
    /\ IsAlive(threads[s])
    /\ threads[s].proc = "running"
    /\ Len(threads[s].buf) < MaxBuf
    /\ Len(threads[s].emitted) < MaxLines
    /\ threads' = [ threads EXCEPT ![s].buf = Append(@, line),
                                   ![s].emitted = Append(@, line) ]
    /\ UNCHANGED << pc, yaml, cfg, passVars, died_in_pass, ended, j, emails >>

\* the log source of a watcher stops: the container stopped or exited
SourceStops(s) ==
    /\ pc \notin { "exited", "crashed" }
    /\ IsAlive(threads[s])
    /\ threads[s].proc = "running"
    /\ threads' = [ threads EXCEPT ![s].proc = "exited" ]
    /\ UNCHANGED << pc, yaml, cfg, passVars, died_in_pass, ended, j, emails >>

\* ------------------------------------------- main thread: scheduler loop
\* a thread started without its name: it keeps a default name of the runtime
NewThreadUnnamed(thread_name, container_name, logger_name) ==
    [ name |-> << "T", "h", "r", "e", "a", "d", "-", "N" >>,
      container |-> container_name, logger |-> logger_name,
      pc |-> "popen", proc |-> "none", emitted |-> <<>>, buf |-> <<>>,
      written |-> <<>> ]

\* the thread object made by start_function_thread (line 113): named
\* thread_name, running get_docker_log(container_name, container_logger, ..);
\* emitted are the lines its log source has written to the pipe, buf those
\* of them not read yet, written the texts handed to the container logger
NewThread(thread_name, container_name, logger_name) ==
    [ name |-> thread_name, container |-> container_name, logger |-> logger_name,
      pc |-> "popen", proc |-> "none", emitted |-> <<>>, buf |-> <<>>,
      written |-> <<>> ]

Range(f) == { f[k] : k \in DOMAIN f }

\* slots a new thread may take: not alive, and not the slot of a thread
\* started earlier in this pass
FreeSlots == { s \in Slots : ~ IsAlive(threads[s]) /\ s \notin Range(spawned) }

\* lines 421-440 and 83-86: populate_startup_variables returns the settings
\* of this cycle, main enters its try and calls create_docker_log_threads,
\* which starts with an empty tracker
Load(c) ==
    /\ pc = "load"
    /\ yaml' = << RequiredKeys >>
    /\ cfg' = c
    /\ i' = 1
    /\ thread_start_tracker' = <<>>
    /\ spawned' = <<>>
    /\ died_in_pass' = FALSE
    /\ j' = 1
    /\ emails' = <<>>
    /\ pc' = "check"
    /\ UNCHANGED << ended, threads >>

\* populate_startup_variables without the checks of lines 244-251: whatever
\* sections the file holds, the cycle goes on to a pass over container "a"
LoadWithoutSectionCheck(keys) ==
    /\ pc = "load"
    /\ yaml' = << keys >>
    /\ cfg' = [ NoConfig EXCEPT !.containers = << << "a" >> >> ]
    /\ i' = 1
    /\ thread_start_tracker' = <<>>
    /\ spawned' = <<>>
    /\ died_in_pass' = FALSE
    /\ j' = 1
    /\ emails' = <<>>
    /\ pc' = "check"
    /\ UNCHANGED << ended, threads >>

\* lines 241-251 and 407-414: the configuration file is read; a missing
\* section, or a later check of populate_startup_variables, raises ValueError.
\* Line 421 is outside the try of line 436: the error leaves main and the
\* loop of line 525
LoadFails(keys) ==
    /\ pc = "load"
    /\ yaml' = << keys >>
    /\ pc' = "crashed"
    /\ UNCHANGED << cfg, passVars, died_in_pass, ended, j, emails, threads >>

\* the loop without the lookup of line 105: every container is spawned
CheckWithoutLookup ==
    /\ pc = "check"
    /\ i <= Len(cfg.containers)
    /\ pc' = "spawn"
    /\ UNCHANGED << yaml, cfg, passVars, died_in_pass, ended, j, emails, threads >>

\* lines 89-105 and 136-137: the next container of the loop; its thread
\* name is looked up in str(threading.enumerate())
Check ==
    /\ pc = "check"
    /\ i <= Len(cfg.containers)
    /\ IF ThreadNameInEnumerate(ThreadName(cfg.containers[i]), Enumerate)
       THEN i' = i + 1 /\ pc' = "check"
       ELSE i' = i /\ pc' = "spawn"
    /\ UNCHANGED << yaml, cfg, thread_start_tracker, spawned, died_in_pass, ended, j,
                    emails, threads >>

\* a spawn that takes the place of a thread of an earlier pass, alive or not
SpawnReplaces ==
    /\ pc = "spawn"
    /\ Slots \ Range(spawned) # {}
    /\ LET s == CHOOSE x \in Slots \ Range(spawned) :
                    \A y \in Slots \ Range(spawned) : x <= y
           container_name == ReplaceSpaces(cfg.containers[i])
       IN  /\ threads' = [ threads EXCEPT ![s] =
                             NewThread(ThreadName(cfg.containers[i]), container_name,
                                       cfg.containers[i]) ]
           /\ spawned' = Append(spawned, s)
    /\ ended' = ended \ { ThreadName(cfg.containers[i]) }
    /\ pc' = "validate"
    /\ UNCHANGED << yaml, cfg, i, thread_start_tracker, died_in_pass, j, emails >>

\* line 113: start_function_thread returns with the thread started
SpawnStarts ==
    /\ pc = "spawn"
    /\ FreeSlots # {}
    /\ LET s == CHOOSE x \in FreeSlots : \A y \in FreeSlots : x <= y
           container_name == ReplaceSpaces(cfg.containers[i])
       IN  /\ threads' = [ threads EXCEPT ![s] =
                             NewThread(ThreadName(cfg.containers[i]), container_name,
                                       cfg.containers[i]) ]
           /\ spawned' = Append(spawned, s)
    /\ ended' = ended \ { ThreadName(cfg.containers[i]) }
    /\ pc' = "validate"
    /\ UNCHANGED << yaml, cfg, i, thread_start_tracker, died_in_pass, j, emails >>

\* lines 115-118: start_function_thread raises; the error is raised again
\* as ValueError, leaves create_docker_log_threads and reaches line 469
SpawnRaises ==
    /\ pc = "spawn"
    /\ pc' = "fatal"
    /\ UNCHANGED << yaml, cfg, passVars, died_in_pass, ended, j, emails, threads >>

\* lines 124-134: the thread name is looked up again, the outcome appended
Validate ==
    /\ pc = "validate"
    /\ thread_start_tracker' =
         Append(thread_start_tracker,
                [ Status |-> IF ThreadNameInEnumerate(ThreadName(cfg.containers[i]),
                                                      Enumerate)
                             THEN "Started" ELSE "Failed",
                  container_name |-> ReplaceSpaces(cfg.containers[i]) ])
    /\ i' = i + 1
    /\ pc' = "check"
    /\ UNCHANGED << yaml, cfg, spawned, died_in_pass, ended, j, emails, threads >>

\* line 139: the loop is over, the tracker is returned to main (line 440)
Return ==
    /\ pc = "check"
    /\ i > Len(cfg.containers)
    /\ pc' = "alert"
    /\ UNCHANGED << yaml, cfg, passVars, died_in_pass, ended, j, emails, threads >>

\* lines 446-467: one result entry; send_email is called when email alerts
\* are on, and a ValueError it raises reaches line 469
Alert ==
    /\ pc = "alert"
    /\ j <= Len(thread_start_tracker)
    /\ IF cfg.email_alerts
       THEN /\ emails' = Append(emails, thread_start_tracker[j])
            /\ \/ j' = j + 1 /\ pc' = "alert"
               \/ j' = j /\ pc' = "fatal"
       ELSE /\ emails' = emails
            /\ j' = j + 1
            /\ pc' = "alert"
    /\ UNCHANGED << yaml, cfg, passVars, died_in_pass, ended, threads >>

\* main returning to the loop while results are still waiting for their
\* mail
SleepBeforeAlertsAreSent ==
    /\ pc = "alert"
    /\ pc' = "sleep"
    /\ UNCHANGED << yaml, cfg, passVars, died_in_pass, ended, j, emails, threads >>

\* line 506: main returns and its local variables (startup_variables,
\* thread_status) are gone; line 531: time.sleep(3600) begins
Sleep ==
    /\ pc = "alert"
    /\ j > Len(thread_start_tracker)
    /\ pc' = "sleep"
    /\ cfg' = NoConfig
    /\ i' = 1
    /\ thread_start_tracker' = <<>>
    /\ spawned' = <<>>
    /\ died_in_pass' = FALSE
    /\ j' = 1
    /\ emails' = <<>>
    /\ UNCHANGED << yaml, ended, threads >>

\* the loop of line 525 without its second round: the sleep never ends
WakeNever ==
    /\ pc = "sleep"
    /\ UNCHANGED vars

\* line 531 returns; line 528 calls main again
Wake ==
    /\ pc = "sleep"
    /\ pc' = "load"
    /\ UNCHANGED << yaml, cfg, passVars, died_in_pass, ended, j, emails, threads >>

ProgramIssue == [ Status |-> "Program Issue", container_name |-> <<>> ]

\* the test of line 484 written with or: the program-error mail is attempted
\* when either switch is on
FatalAlertsOnEitherSwitch ==
    /\ pc = "fatal"
    /\ emails' = IF cfg.alert_program_errors \/ cfg.email_alerts
                 THEN Append(emails, ProgramIssue)
                 ELSE emails
    /\ pc' = "exited"
    /\ UNCHANGED << yaml, cfg, passVars, died_in_pass, ended, j, threads >>

\* the handler of line 469 without the exit() of line 504: main returns and
\* the loop of line 525 goes on to sleep
FatalWithoutExit ==
    /\ pc = "fatal"
    /\ emails' = IF cfg.alert_program_errors /\ cfg.email_alerts
                 THEN Append(emails, ProgramIssue)
                 ELSE emails
    /\ pc' = "sleep"
    /\ UNCHANGED << yaml, cfg, passVars, died_in_pass, ended, j, threads >>

\* lines 469-504: the error is logged, a program-error mail is attempted
\* when both switches are on, and exit() ends the process
Fatal ==
    /\ pc = "fatal"
    /\ emails' = IF cfg.alert_program_errors /\ cfg.email_alerts
                 THEN Append(emails, ProgramIssue)
                 ELSE emails
    /\ pc' = "exited"
    /\ UNCHANGED << yaml, cfg, passVars, died_in_pass, ended, j, threads >>

\* ----------------------------------------------------------- specification
Init ==
    /\ pc = "load"
    /\ yaml = NoYaml
    /\ cfg = NoConfig
    /\ i = 1
    /\ thread_start_tracker = <<>>
    /\ spawned = <<>>
    /\ died_in_pass = FALSE
    /\ ended = {}
    /\ j = 1
    /\ emails = <<>>
    /\ threads = [ s \in Slots |-> NoThread ]

MainSteps ==
    \/ \E keys \in YamlFiles : LoadFails(keys)
    \/ Check
    \/ SpawnStarts
    \/ SpawnRaises
    \/ Validate
    \/ Return
    \/ Alert
    \/ Sleep
    \/ Wake
    \/ Fatal

WatcherSteps ==
    \E s \in Slots :
        \/ Popen(s)
        \/ Poll(s)
        \/ ReadLine(s)
        \/ SourceStops(s)

\* the supervision model: configurations of up to MaxContainers containers
\* with the two alert switches set alike, log sources that stay silent until
\* they stop
PassConfigs == { c \in Configs : c.alert_program_errors = c.email_alerts }

Next ==
    \/ \E c \in PassConfigs : Load(c)
    \/ MainSteps
    \/ WatcherSteps

Spec == Init /\ [][Next]_vars

\* configurations of at most one container
SingleConfigs == { c \in Configs : Len(c.containers) <= 1 }

\* the watcher model: container "a" configured or not, a log source that
\* emits up to MaxLines lines
ReaderConfigs == { c \in SingleConfigs : c.containers \in { <<>>, << << "a" >> >> } }

ReaderNext ==
    \/ \E c \in ReaderConfigs : Load(c)
    \/ MainSteps
    \/ WatcherSteps
    \/ \E s \in Slots, line \in Lines : SourceEmit(s, line)

ReaderSpec == Init /\ [][ReaderNext]_vars

\* the scheduler model: at most one configured container per cycle, silent
\* log sources. The main thread is one thread of the interpreter and
\* time.sleep returns: a step of the main thread that stays possible is taken
CycleMain == (\E c \in SingleConfigs : Load(c)) \/ MainSteps

CycleNext == CycleMain \/ WatcherSteps

FairSpec == Init /\ [][CycleNext]_vars /\ WF_vars(CycleMain)

\* the two-watcher model: containers "a" and "b_a" configured in every
\* cycle, log sources that emit up to MaxLines lines "b\n"
PairConfigs == { c \in Configs : c.containers = << << "a" >>, << "b", "_", "a" >> >> }

PairMain == (\E c \in PairConfigs : Load(c)) \/ MainSteps

PairNext ==
    \/ PairMain
    \/ WatcherSteps
    \/ \E s \in Slots : SourceEmit(s, << 98, 10 >>)

PairSpec == Init /\ [][PairNext]_vars

TypeOK ==
    /\ pc \in { "load", "check", "spawn", "validate", "alert", "sleep", "fatal",
                "exited", "crashed" }
    /\ yaml \in { NoYaml } \cup { << y >> : y \in YamlFiles }
    /\ cfg \in Configs
    /\ i \in 1 .. (MaxContainers + 1)
    /\ Len(thread_start_tracker) <= MaxContainers
    /\ Len(spawned) <= MaxContainers
    /\ j \in 1 .. (MaxContainers + 1)
    /\ died_in_pass \in BOOLEAN
    /\ ended \subseteq { ThreadName(n) : n \in ContainerNames }

\* =================================================================== claims
\* the pass has gone through every configured container (line 139 is next)
PassDone == pc = "check" /\ i > Len(cfg.containers)

\* the slots of the live threads that this pass did not start
OldSlots == LiveSlots \ Range(spawned)

ExactAlive(container_name) ==
    \E s \in LiveSlots : threads[s].name = ThreadName(container_name)

\* ------------------------------------------------------------------- C1
\* C1: in every reachable state no two live watcher threads read the log of
\* the same container.
AtMostOneReaderPerContainer ==
    \A s1, s2 \in LiveSlots :
        threads[s1].container = threads[s2].container => s1 = s2

\* a pass has found the watcher of its first container alive and has gone on
\* without spawning
C1Witness ==
    /\ pc = "check"
    /\ i = 2
    /\ spawned = <<>>
    /\ ExactAlive(cfg.containers[1])

\* ------------------------------------------------------------------- C2
\* C2: the lookup made by a pass (line 105, and again at line 124) answers
\* 'active' exactly when a thread whose name is the container's derived
\* thread name is alive.
RegistryCheckIsExact ==
    [][ /\ (pc = "check" /\ i <= Len(cfg.containers) /\ (pc' = "spawn" \/ i' = i + 1))
           => ((pc' = "check") <=> ExactAlive(cfg.containers[i]))
        /\ (pc = "validate" /\ pc' = "check")
           => ((thread_start_tracker'[Len(thread_start_tracker')].Status = "Started")
                <=> ExactAlive(cfg.containers[i])) ]_vars

\* ------------------------------------------------------------------- C3
RECURSIVE Dedup(_)
Dedup(seq) ==
    IF seq = <<>> THEN <<>>
    ELSE LET front == Dedup(SubSeq(seq, 1, Len(seq) - 1))
             last == seq[Len(seq)]
         IN  IF last \in Range(front) THEN front ELSE Append(front, last)

\* C3: a pass entered with no watcher alive, none of whose watchers ended
\* while it ran, returns one 'Started' entry per configured container, in
\* the configured order, and nothing else.
PassFromEmptyRegistryStartsAll ==
    (PassDone /\ ~ died_in_pass /\ OldSlots = {})
    => thread_start_tracker =
         [ k \in 1 .. Len(Dedup(cfg.containers)) |->
             [ Status |-> "Started",
               container_name |-> ReplaceSpaces(Dedup(cfg.containers)[k]) ] ]

\* ------------------------------------------------------------------- C4
\* the watcher in slot s fails to attach: Popen raises (line 55 to line 66)
AttachFails(s) == threads[s].pc = "popen" /\ threads'[s] = NoThread

\* C4: a watcher that fails to attach to its log source has 'Failed' as the
\* entry of the pass that started it.
AttachFailureIsReportedFailed ==
    [][ \A s \in Slots : \A k \in 1 .. Len(thread_start_tracker) :
          (AttachFails(s) /\ spawned[k] = s)
          => thread_start_tracker[k].Status = "Failed" ]_vars

\* ------------------------------------------------------------------- C5
\* start_function_thread raises in this step
SpawnErrorStep == pc = "spawn" /\ pc' \notin { "spawn", "validate" }

PassAborted == pc \in { "fatal", "exited" } /\ i <= Len(cfg.containers)

PassOverLiveWatchersIsEmpty ==
    (\A k \in 1 .. Len(cfg.containers) :
        \E s \in OldSlots : threads[s].name = ThreadName(cfg.containers[k]))
    => (spawned = <<>> /\ thread_start_tracker = <<>>)

\* a pass over two containers, both watchers alive all along, has returned
C6Witness ==
    /\ pc = "alert"
    /\ Len(cfg.containers) = 2
    /\ cfg.containers[1] # cfg.containers[2]
    /\ \A k \in 1 .. 2 :
         \E s \in OldSlots : threads[s].name = ThreadName(cfg.containers[k])
    /\ thread_start_tracker = <<>>

\* ------------------------------------------------------------------- C7
\* C7: a configured container whose watcher had ended when the pass was
\* entered has a 'Started' entry when the pass is over (no watcher having
\* ended while the pass ran): either the pass started it again, or it is
\* still among the ended ones and the pass started nothing for it.
DeadWatcherIsRespawned ==
    (PassDone /\ ~ died_in_pass)
    => \A k \in 1 .. Len(cfg.containers) :
         (ThreadName(cfg.containers[k]) \in ended)
         => \E m \in 1 .. Len(thread_start_tracker) :
              thread_start_tracker[m] =
                [ Status |-> "Started",
                  container_name |-> ReplaceSpaces(cfg.containers[k]) ]

\* ------------------------------------------------------------------- C8
\* the watcher in slot s is about to read a line that is not valid UTF-8
ReadsInvalidLine(s) ==
    /\ threads[s].pc = "readline"
    /\ threads[s].buf # <<>>
    /\ ~ Utf8Decode(Head(threads[s].buf)).ok

\* C8: a watcher that reads a line of invalid bytes stays alive: it hands a
\* line to its logger and goes back to line 58.
InvalidLineKeepsReaderAlive ==
    [][ \A s \in Slots :
          (ReadsInvalidLine(s) /\ threads'[s].pc # "readline")
          => threads'[s].pc = "poll" ]_vars

\* ------------------------------------------------------------------- C9
\* the logger of the watcher in slot s raises on a line that was decoded
SinkWriteFails(s) ==
    /\ threads[s].pc = "readline"
    /\ threads[s].buf = <<>> \/ Utf8Decode(Head(threads[s].buf)).ok
    /\ threads'[s] = NoThread

\* C9: a watcher whose log source has stopped ends only at line 63: by
\* leaving the loop of line 58, never by an error (an error of the logger,
\* which ends the watcher by design, set aside).
StoppedSourceEndsReaderCleanly ==
    [][ \A s \in Slots :
          (/\ IsAlive(threads[s])
           /\ threads[s].proc = "exited"
           /\ ~ IsAlive(threads'[s])
           /\ ~ SinkWriteFails(s))
          => threads[s].pc = "poll" ]_vars

\* ------------------------------------------------------------------ C10
\* C10: after every pass that has returned, the next pass starts, unless the
\* cycle ends the process on an error.
PassIsFollowedByPass ==
    (pc = "alert") ~> (pc \in { "check", "fatal", "exited", "crashed" })

\* a pass has been entered while a watcher of an earlier cycle is alive
C10Witness ==
    /\ pc = "check"
    /\ i = 1
    /\ spawned = <<>>
    /\ LiveSlots # {}

\* ------------------------------------------------------------------ C11
\* the process has ended: by the exit() of line 504 or by an error that left
\* main and the loop of line 525
ProcessEnded == pc \in { "exited", "crashed" }

\* C11: a process that an error of a cycle has ended went through the
\* handler of line 469 (pc = "exited" is reached from there only): the error
\* was logged by line 481 and, with the alert switches on, the program-error
\* mail was the last one attempted.
FatalErrorIsLoggedAndAlerted ==
    ProcessEnded
    => /\ pc = "exited"
       /\ (cfg.alert_program_errors /\ cfg.email_alerts)
          => (emails # <<>> /\ emails[Len(emails)] = ProgramIssue)

\* ------------------------------------------------------------------ C12
\* send_email is called for a result entry in this step (line 463)
SendsResultMail == pc = "alert" /\ emails' # emails

\* C12: whatever becomes of the delivery of a result mail, the alert loop
\* goes on with the next entry: the cycle is not left and the process not
\* ended.
AlertFailureIsCaught ==
    [][ SendsResultMail => (pc' = "alert" /\ j' = j + 1) ]_vars

\* ------------------------------------------------------------------ C13
\* the configuration read lacks a required top-level section
LacksSection(y) == y # NoYaml /\ RequiredKeys \ y[1] # {}

\* C13: the step of a cycle that reads a configuration lacking a required
\* section ends the cycle and the process at once: no pass is entered, no
\* thread is started, and nothing happens afterwards.
MissingSectionFailsBeforeSpawn ==
    [][ /\ (pc = "load" /\ pc' # "load" /\ LacksSection(yaml'))
           => (pc' = "crashed" /\ UNCHANGED << cfg, passVars, threads >>)
        /\ ~ LacksSection(yaml) ]_vars

\* a later cycle has read a configuration without its 'email' section while
\* a watcher of an earlier cycle was alive
C13Witness ==
    /\ pc = "crashed"
    /\ yaml = << RequiredKeys \ { "email" } >>
    /\ LiveSlots # {}

\* ------------------------------------------------------------------ C14
\* C14: an error of its logger ends the one watcher it happens in: no other
\* thread and not the main thread is touched by the step, and from then on
\* the lookup of line 105 reports the container as not running, so that the
\* next pass starts its watcher again.
SinkErrorEndsOnlyItsWatcher ==
    [][ \A s \in Slots :
          SinkWriteFails(s)
          => /\ \A t \in Slots \ { s } : threads'[t] = threads[t]
             /\ UNCHANGED << pc, cfg, passVars, j, emails >>
             /\ ~ ThreadNameInEnumerate(threads[s].name, Enumerate') ]_vars

\* ------------------------------------------------------------------ C15
\* the texts line 61 makes of the raw lines: decoded and stripped
TextsOf(raw_lines) ==
    [ k \in 1 .. Len(raw_lines) |-> Strip(Utf8Decode(raw_lines[k]).text) ]

\* C15: what a watcher has handed to its logger are the texts of the lines
\* it has read from its stream so far, in the order the log source wrote
\* them (after the last of them, the empty text of a read at the end of the
\* stream).
SinkKeepsStreamOrder ==
    \A s \in LiveSlots :
        LET read == SubSeq(threads[s].emitted, 1,
                           Len(threads[s].emitted) - Len(threads[s].buf))
        IN  threads[s].written \in { TextsOf(read), Append(TextsOf(read), <<>>) }

\* a watcher has written "a" and then "b", read in this order
C15Witness ==
    \E s \in LiveSlots :
        /\ threads[s].emitted = << <<97, 32, 10>>, <<98, 10>> >>
        /\ threads[s].written = << <<97>>, <<98>> >>

\* ------------------------------------------------------------------ C16
\* C16: the main thread enters a pass only from the call of main by the loop
\* of line 525, calls main again only when the sleep of line 531 is over,
\* sleeps only when every result of the pass has gone through the alert loop,
\* and enters the alert loop only when the pass has returned.
PassesNeverOverlap ==
    [][ /\ (pc' = "check" /\ pc \notin { "check", "validate" })
           => (pc = "load" /\ i' = 1)
        /\ (pc' = "load" /\ pc # "load") => pc = "sleep"
        /\ (pc' = "sleep" /\ pc # "sleep")
           => (pc = "alert" /\ j > Len(thread_start_tracker))
        /\ (pc' = "alert" /\ pc # "alert") => PassDone ]_vars

\* a later pass, entered after the sleep, is about to start again a watcher
\* that ended
C16Witness ==
    /\ pc = "spawn"
    /\ spawned = <<>>
    /\ ThreadName(cfg.containers[i]) \in ended

\* ------------------------------------------------------------------ C17
\* the watcher in slot s waits in readline (line 61) for a line of a log
\* source that is running and has nothing pending
Blocked(s) ==
    /\ threads[s].pc = "readline"
    /\ threads[s].buf = <<>>
    /\ threads[s].proc = "running"

\* C17: while a watcher waits in readline for a silent container (in a
\* process that has not ended), every
\* other watcher that has a line pending can read and write it, and the main
\* thread can take its next step: of the pass, of the alert loop, of the
\* sleep or of the next cycle.
BlockedReaderBlocksNobody ==
    \A s \in Slots :
        (Blocked(s) /\ ~ ProcessEnded)
        => /\ \A t \in Slots \ { s } :
                (threads[t].pc = "readline" /\ threads[t].buf # <<>>)
                => ENABLED ReadLine(t)
           /\ ENABLED PairMain

\* one watcher waits for a line while the other has one pending and the
\* main thread is inside a pass
C17Witness ==
    \E s, t \in Slots :
        /\ Blocked(s)
        /\ threads[t].pc = "readline"
        /\ threads[t].buf # <<>>
        /\ pc = "check"

\* ------------------------------------------------------------------ C18
\* C18: once the main thread is in the handler of line 469, it goes to the
\* exit() of line 504 and nowhere else: the loop index, the result list and
\* the threads started by the pass stay as they are (no lookup, no spawn),
\* and no thread comes alive.
NoPassAfterExit ==
    [][ (pc = "fatal" \/ pc = "exited")
        => /\ pc' \in { "fatal", "exited" }
           /\ UNCHANGED << yaml, cfg, passVars, j >>
           /\ \A s \in Slots : IsAlive(threads'[s]) => IsAlive(threads[s]) ]_vars

\* the process has exited on the failed delivery of a result mail, with a
\* watcher alive
C18Witness ==
    /\ pc = "exited"
    /\ j <= Len(thread_start_tracker)
    /\ LiveSlots # {}

\* ------------------------------------------------------------------ C19
\* the step is one of the main thread
MainMoves == << pc, yaml, cfg, passVars, j, emails >>' # << pc, yaml, cfg, passVars, j, emails >>

\* C19: no step of a pass changes a live watcher: its thread, its logger,
\* its log source, its pending lines and what it has written stay as they
\* are, so a watcher leaves the live threads only in a step of its own.
PassLeavesLiveWatchersAlone ==
    [][ (InPass /\ MainMoves) => \A s \in LiveSlots : threads'[s] = threads[s] ]_vars

\* a pass over one container has found its watcher alive and has returned
\* with nothing started
C19Witness ==
    /\ pc = "alert"
    /\ Len(cfg.containers) = 1
    /\ spawned = <<>>
    /\ \E s \in OldSlots : threads[s].name = ThreadName(cfg.containers[1])

IsResultMail(m) == m # ProgramIssue

\* the mails of this cycle that line 463 attempted, in the order of the calls
ResultMails == SelectSeq(emails, IsResultMail)

\* the cycle is through with the results its pass returned: the alert loop
\* is over, or the process has exited after the pass had returned
ResultsHandled ==
    \/ pc = "alert" /\ j > Len(thread_start_tracker)
    \/ pc = "exited" /\ i > Len(cfg.containers)

\* C21: when a cycle is through with the results of its pass, the mails it
\* attempted for them are the result entries themselves, one each and in
\* result order, with email alerts on, and none with email alerts off.
EveryResultIsNotified ==
    ResultsHandled
    => ResultMails = IF cfg.email_alerts THEN thread_start_tracker ELSE <<>>

\* ------------------------------------------------------------------ C22
\* C22: when a pass is over (no watcher having ended while it ran), every
\* configured container has a live watcher of its own: one that was started
\* for this very container_name of the configuration and holds its logger.
DistinctContainersGetOwnReader ==
    (PassDone /\ ~ died_in_pass)
    => \A k \in 1 .. Len(cfg.containers) :
         \E s \in LiveSlots : threads[s].logger = cfg.containers[k]

\* ------------------------------------------------------------------ C23
\* the watcher in slot s leaves the loop of line 58: poll() has seen its log
\* source ended
LeavesLoop(s) == threads[s].pc = "poll" /\ threads'[s] = NoThread

\* C23: a watcher that leaves its loop because its log source has ended has
\* read every line the source wrote: none is pending in the pipe, and the
\* texts of all of them have been handed to the logger.
NoLineIsLeftUnread ==
    [][ \A s \in Slots :
          LeavesLoop(s)
          => /\ threads[s].buf = <<>>
             /\ Len(threads[s].written) >= Len(threads[s].emitted) ]_vars

\* ------------------------------------------------------------------ C24
\* C24: a watcher has handed to its logger at most as many texts as its log
\* source has written lines: nothing is written for a read that returned
\* b'' at the end of the stream.
WritesOnlyLinesRead ==
    \A s \in LiveSlots : Len(threads[s].written) <= Len(threads[s].emitted)

\* ------------------------------------------------------------------ C25
\* C25: the main thread leaves the handler of line 469 by exit() only,
\* whatever the two switches say, and the program-error mail is among the
\* mails attempted exactly when alert_program_errors and email_alerts are
\* both on.
ProgramErrorMailNeedsBothSwitches ==
    [][ (pc = "fatal" /\ pc' # "fatal")
        => /\ pc' = "exited"
           /\ (ProgramIssue \in Range(emails'))
              <=> (cfg.alert_program_errors /\ cfg.email_alerts) ]_vars

\* the process has exited on an error with alert_program_errors on and
\* email_alerts off, and no mail was attempted
C25Witness ==
    /\ pc = "exited"
    /\ cfg.alert_program_errors
    /\ ~ cfg.email_alerts
    /\ emails = <<>>

====
